---- MODULE Spec2Model ----
(***************************************************************************)
(* The comment relay of src/server.js: POST /apps/comments/save and GET    *)
(* /apps/comments/get, each forwarding one GraphQL call to the remote      *)
(* store and reshaping its answer.  The file holds two versions of the     *)
(* server; they share the save handler and differ in the get handler       *)
(* (lines 149-213 and lines 366-449).  `variant` says which one is         *)
(* deployed.                                                               *)
(***************************************************************************)
EXTENDS Integers, Sequences, FiniteSets

\* ------------------------------------------------------------------ bounds
\* Handler activations that may be suspended on their remote call at once.
MaxInFlight == 2
\* The clock (Date.now(), milliseconds) runs from ClockStart to ClockStart + MaxTicks.
ClockStart == 998
MaxTicks == 2
\* Records per lookup answer, and fields per record, in the lookup answers.
MaxNodes == 2
MaxFields == 2

\* ------------------------------------------------------------ state
VARIABLES
  variant,   \* which version of the get handler is deployed: 1 or 2
  clock,     \* the system clock, in milliseconds
  reqs       \* the handler activations, by slot: locals, remote call, responses

vars == <<variant, clock, reqs>>

Slots == 1..MaxInFlight

\* ------------------------------------------------------------ JavaScript values
Undefined == [t |-> "undefined"]
Null == [t |-> "null"]
Str(s) == [t |-> "string", s |-> s]
Num(n) == [t |-> "number", n |-> n]

\* ToBoolean, as `!image_id` applies it.
Truthy(v) ==
  CASE v.t = "undefined" -> FALSE
    [] v.t = "null" -> FALSE
    [] v.t = "string" -> v.s # ""
    [] v.t = "number" -> v.n # 0

DigitChars == <<"0", "1", "2", "3", "4", "5", "6", "7", "8", "9">>

\* Number.prototype.toString of a non-negative integer.
RECURSIVE Digits(_)
Digits(n) == IF n < 10 THEN DigitChars[n + 1] ELSE Digits(n \div 10) \o DigitChars[(n % 10) + 1]

\* String.prototype.padStart(w, "0") of a number's digits.
RECURSIVE Pad(_, _)
Pad(n, w) == IF w <= 1 THEN Digits(n) ELSE IF n < 10 THEN "0" \o Pad(n, w - 1)
             ELSE Pad(n \div 10, w - 1) \o DigitChars[(n % 10) + 1]

\* image_id.toString() and `${image_id}` of a string or a non-negative integer.
ToString(v) == IF v.t = "string" THEN v.s ELSE Digits(v.n)

\* new Date(ms).toISOString(), for 0 <= ms < 31 days: every such instant is in
\* January 1970.
ToISOString(ms) ==
  "1970-01-" \o Pad(1 + (ms \div 86400000), 2) \o "T"
    \o Pad((ms \div 3600000) % 24, 2) \o ":" \o Pad((ms \div 60000) % 60, 2) \o ":"
    \o Pad((ms \div 1000) % 60, 2) \o "." \o Pad(ms % 1000, 3) \o "Z"

\* s.includes(sub)
Includes(s, sub) ==
  \E i \in 1..(Len(s) - Len(sub) + 1) : SubSeq(s, i, i + Len(sub) - 1) = sub

\* ------------------------------------------------------------ HTTP responses
\* res.status(status).json(payload); res.json(payload) sends status 200.
Response(status, payload) == [status |-> status, payload |-> payload]
ErrorPayload(msg) == [kind |-> "error", error |-> msg, hasDetails |-> FALSE]
ErrorDetails(msg, d) == [kind |-> "error", error |-> msg, hasDetails |-> TRUE, details |-> d]

\* What a try block did: sent responses, or threw before sending any.
Responded(resp) == [threw |-> FALSE, responses |-> <<resp>>]
Threw(err) == [threw |-> TRUE, err |-> err]

\* The errors a catch block sees.  An axios error carries `response` when the
\* remote answered with an error status, `request` when no answer came; a
\* TypeError raised while reading the answer carries neither.
HttpError(status, data) == [tag |-> "response", status |-> status, data |-> data]
NoResponse == [tag |-> "request"]
PlainError(msg) == [tag |-> "other", message |-> msg]

\* The remote call's outcome, as the awaiting handler sees it.
Resolved(body) == [tag |-> "resolved", body |-> body]
Rejected(err) == [tag |-> "rejected", err |-> err]
NoOutcome == [tag |-> "none"]

\* ------------------------------------------------------------ the save handler
\* SaveValid, checking image_id alone.
SaveValidImageOnly(body) == Truthy(body.image_id)

\* `!image_id || !comment` is false (lines 36-40).
SaveValid(body) == ~(~Truthy(body.image_id) \/ ~Truthy(body.comment))

\* SaveHandle, made unique by a module-level count of the calls in flight
\* instead of the image identifier.
SaveHandleInFlightCount(image_id, now) ==
  "comment-" \o Digits(Cardinality({q \in Slots : reqs[q].pc = "awaiting"})) \o "-" \o Digits(now)

\* SaveHandle, without the image identifier.
SaveHandleTimeOnly(image_id, now) == "comment-" \o Digits(now)

\* `comment-${image_id}-${Date.now()}` (line 43).
SaveHandle(image_id, now) == "comment-" \o ToString(image_id) \o "-" \o Digits(now)

\* The mutation's variables (lines 66-83); `ts` is the reading of new Date() at
\* line 42, `now` the reading of Date.now() at line 43.
SaveVariables(body, ts, now) ==
  [ type |-> "image_comment",
    handle |-> SaveHandle(body.image_id, now),
    fields |-> << [key |-> "image_id", value |-> Str(ToString(body.image_id))],
                  [key |-> "comment_text", value |-> body.comment],
                  [key |-> "timestamp", value |-> Str(ToISOString(ts))] >>,
    status |-> "ACTIVE" ]

\* axios.post(graphqlEndpoint, { query: mutation, variables }, { headers }) (line 88).
CreateCall(variables) == [op |-> "metaobjectCreate", variables |-> variables]

\* responseData?.data?.metaobjectCreate
MetaobjectCreateOf(responseData) ==
  IF responseData.kind = "object" /\ responseData.data.kind = "object"
    THEN responseData.data.metaobjectCreate
    ELSE [kind |-> "undefined"]

\* userErrors && userErrors.length > 0 (lines 93-94)
UserErrorsReported(responseData) ==
  LET created == MetaobjectCreateOf(responseData)
  IN  created.kind = "object" /\ created.userErrors.present /\ Len(created.userErrors.items) > 0

\* TopLevelErrorsReported, reading responseData.data.errors, a key the answers
\* never carry.
TopLevelErrorsMisread(responseData) == FALSE

\* responseData.errors is truthy (line 103); an array is truthy even when empty.
\* Only read once responseData is known not to be null.
TopLevelErrorsReported(responseData) ==
  responseData.kind = "object" /\ responseData.errors.present

\* !responseData?.data?.metaobjectCreate?.metaobject (line 112)
MetaobjectMissing(responseData) ==
  LET created == MetaobjectCreateOf(responseData)
  IN  ~(created.kind = "object" /\ created.metaobject.present)

\* The try block after the await (lines 90-118).
SaveTry(responseData) ==
  IF UserErrorsReported(responseData)
    THEN Responded(Response(400, ErrorDetails("Failed to save comment due to validation errors.",
                       [array |-> MetaobjectCreateOf(responseData).userErrors.items])))
  ELSE IF responseData.kind = "null"
    THEN Threw(PlainError("Cannot read properties of null (reading 'errors')"))
  ELSE IF TopLevelErrorsReported(responseData)
    THEN Responded(Response(400, ErrorDetails("Failed to save comment due to GraphQL errors.",
                       [array |-> responseData.errors.items])))
  ELSE IF MetaobjectMissing(responseData)
    THEN Responded(Response(500, ErrorPayload(
           "Internal Server Error: Unexpected response structure after saving comment.")))
  ELSE IF ~MetaobjectCreateOf(responseData).metaobject.present
    \* line 117 reads responseData.data.metaobjectCreate.metaobject.handle
    THEN Threw(PlainError("Cannot read properties of undefined (reading 'handle')"))
  ELSE Responded(Response(200, [kind |-> "success", success |-> TRUE,
                                data |-> MetaobjectCreateOf(responseData)]))

\* The catch block (lines 120-142).
SaveCatch(err) ==
  IF err.tag = "response"
    THEN <<Response(IF err.status # 0 THEN err.status ELSE 500,
                    ErrorDetails("Error communicating with Shopify API while saving.", err.data))>>
  ELSE IF err.tag = "request"
    THEN <<Response(500, ErrorPayload("Internal Server Error: No response from Shopify API."))>>
  ELSE <<Response(500, ErrorDetails("Internal Server Error.", Str(err.message)))>>

\* The handler from the await to its end: the responses it sends, in order.
SaveFinish(outcome) ==
  IF outcome.tag = "resolved"
    THEN LET t == SaveTry(outcome.body)
         IN  IF t.threw THEN SaveCatch(t.err) ELSE t.responses
    ELSE SaveCatch(outcome.err)

\* ------------------------------------------------------------ the get handlers
\* `!image_id` is false (lines 150-154, 367-371).
GetValid(query) == ~(~Truthy(query.image_id))

\* `image_id:'${image_id}'` (lines 173-175, 390-392).
FilterQuery(image_id) == "image_id:'" \o ToString(image_id) \o "'"

\* axios.post(graphqlEndpoint, { query, variables }, { headers }) (lines 180, 397).
LookupCall(image_id) ==
  [op |-> "metaobjects", type |-> "image_comment", first |-> 100,
   variables |-> [filterQuery |-> FilterQuery(image_id)]]

\* responseData?.data?.metaobjects?.nodes || [] (lines 185, 419)
NodesOf(responseData) ==
  IF responseData.kind = "object" /\ responseData.data.kind = "object"
    THEN responseData.data.nodes
    ELSE <<>>

\* node.fields.find(f => f.key === "comment_text") finds a field.
HasCommentField(node) == \E i \in 1..Len(node.fields.items) : node.fields.items[i].key = "comment_text"

\* CommentOf, taking the last comment_text field instead of the first.
CommentOfLast(node) ==
  IF HasCommentField(node)
    THEN LET last == CHOOSE i \in 1..Len(node.fields.items) :
                       /\ node.fields.items[i].key = "comment_text"
                       /\ \A j \in (i + 1)..Len(node.fields.items) :
                            node.fields.items[j].key # "comment_text"
         IN  node.fields.items[last].value
    ELSE Null

\* commentField ? commentField.value : null (lines 192-200, 422-423)
CommentOf(node) ==
  IF HasCommentField(node)
    THEN LET first == CHOOSE i \in 1..Len(node.fields.items) :
                        /\ node.fields.items[i].key = "comment_text"
                        /\ \A j \in 1..(i - 1) : node.fields.items[j].key # "comment_text"
         IN  node.fields.items[first].value
    ELSE Null

\* comments.filter(comment => comment !== null) (lines 206, 424)
RECURSIVE FilterNulls(_)
FilterNulls(comments) ==
  IF comments = <<>> THEN <<>>
  ELSE IF Head(comments) # Null THEN <<Head(comments)>> \o FilterNulls(Tail(comments))
  ELSE FilterNulls(Tail(comments))

\* nodes.map(...).filter(...) (lines 188-206, 420-424); node.fields.find throws a
\* TypeError on a node without a fields array, before anything is sent.
ExtractComments(nodes) ==
  IF \E i \in 1..Len(nodes) : ~nodes[i].fields.present
    THEN Threw(PlainError("Cannot read properties of undefined (reading 'find')"))
    ELSE Responded(Response(200,
           [kind |-> "comments",
            comments |-> FilterNulls([i \in 1..Len(nodes) |-> CommentOf(nodes[i])])]))

\* The first version's try block (lines 179-208): the errors check is absent.
GetTry1(responseData) == ExtractComments(NodesOf(responseData))

\* The first version's catch block (lines 210-212) is empty: nothing is sent.
GetCatch1(err) == <<>>

\* responseData.errors.some(e => e.message?.includes('filter is not supported')) (line 405)
FilterUnsupported(errors) ==
  \E i \in 1..Len(errors) : Includes(errors[i].message, "filter is not supported")

\* The second version's try block (lines 396-427).
GetTry2(responseData) ==
  IF responseData.kind = "null"
    THEN Threw(PlainError("Cannot read properties of null (reading 'errors')"))
  ELSE IF TopLevelErrorsReported(responseData)
    THEN IF FilterUnsupported(responseData.errors.items)
           THEN Responded(Response(400, ErrorDetails(
                  "Failed to get comments: Filtering not enabled for image_id.",
                  [array |-> responseData.errors.items])))
           ELSE Responded(Response(400, ErrorDetails(
                  "Failed to get comments due to GraphQL errors.",
                  [array |-> responseData.errors.items])))
  ELSE ExtractComments(NodesOf(responseData))

\* The second version's catch block (lines 429-448).
GetCatch2(err) ==
  IF err.tag = "response"
    THEN <<Response(IF err.status # 0 THEN err.status ELSE 500,
                    ErrorDetails("Error communicating with Shopify API while fetching.", err.data))>>
  ELSE IF err.tag = "request"
    THEN <<Response(500, ErrorPayload("Internal Server Error: No response from Shopify API."))>>
  ELSE <<Response(500, ErrorDetails("Internal Server Error.", Str(err.message)))>>

\* The get handler of version v from the await to its end.
GetFinish(v, outcome) ==
  IF outcome.tag = "resolved"
    THEN LET t == IF v = 1 THEN GetTry1(outcome.body) ELSE GetTry2(outcome.body)
         IN  IF ~t.threw THEN t.responses
             ELSE IF v = 1 THEN GetCatch1(t.err) ELSE GetCatch2(t.err)
    ELSE IF v = 1 THEN GetCatch1(outcome.err) ELSE GetCatch2(outcome.err)

\* ------------------------------------------------------------ inputs
\* SeqsUpTo(S, n): the sequences over S of length at most n.
SeqsUpTo(S, n) == UNION {[1..k -> S] : k \in 0..n}

\* req.body of a save request: { image_id, comment } (line 36).
SaveImageIds == {Undefined, Str(""), Num(0), Num(42), Str("42"), Str("7")}
SaveComments == {Undefined, Str(""), Str("Nice photo!")}
SaveBodies == [image_id : SaveImageIds, comment : SaveComments]

\* req.query of a get request: { image_id } (lines 150, 367).
GetQueries == [image_id : {Undefined, Str(""), Str("42")}]

\* What axios.post rejects with: an error status with its payload, no answer,
\* or a failure to set the request up.
Rejections ==
  {Rejected(HttpError(st, [kind |-> "object", errors |-> msg])) :
      st \in {401, 503}, msg \in {"The request could not be served"}}
    \cup {Rejected(NoResponse), Rejected(PlainError("Invalid URL"))}

\* The `errors` key of a GraphQL answer: absent, or an array.
ErrorsKeys(messages) ==
  {[present |-> FALSE]} \cup {[present |-> TRUE, items |-> es] : es \in SeqsUpTo([message : messages], 1)}

\* response.data of the creation call (line 90): JSON null, an empty body, or
\* an object with `errors` and `data.metaobjectCreate.{metaobject, userErrors}`.
UserErrorsKeys ==
  {[present |-> FALSE]}
    \cup {[present |-> TRUE, items |-> es] :
            es \in SeqsUpTo({[field |-> "comment_text", message |-> "Value is too long", code |-> "TOO_LONG"]}, 1)}
MetaobjectKeys ==
  {[present |-> FALSE], [present |-> TRUE, id |-> "gid://shopify/Metaobject/1", handle |-> "comment-42-998"]}
SaveDataKeys ==
  {[kind |-> "null"], [kind |-> "object", metaobjectCreate |-> [kind |-> "null"]]}
    \cup {[kind |-> "object",
           metaobjectCreate |-> [kind |-> "object", metaobject |-> m, userErrors |-> ue]] :
            m \in MetaobjectKeys, ue \in UserErrorsKeys}
SaveResponseData ==
  {[kind |-> "null"], [kind |-> "string"]}
    \cup {[kind |-> "object", errors |-> e, data |-> d] :
            e \in ErrorsKeys({"Throttled"}), d \in SaveDataKeys}
SaveOutcomes == Rejections \cup {Resolved(b) : b \in SaveResponseData}

\* A record's field list entries: { key, value }, value a string or null.
FieldEntries ==
  {[key |-> "image_id", value |-> Str("42")], [key |-> "comment_text", value |-> Str("Nice photo!")],
   [key |-> "comment_text", value |-> Str("")], [key |-> "comment_text", value |-> Null]}
\* A record of a lookup answer: { id, fields }, or one without a fields array.
Nodes(maxFields) ==
  {[fields |-> [present |-> FALSE]]}
    \cup {[fields |-> [present |-> TRUE, items |-> fs]] : fs \in SeqsUpTo(FieldEntries, maxFields)}
\* response.data of the lookup call (lines 181, 399).
GetResponseData(maxNodes, maxFields) ==
  {[kind |-> "null"], [kind |-> "string"]}
    \cup {[kind |-> "object", errors |-> e, data |-> [kind |-> "null"]] :
            e \in ErrorsKeys({"Throttled", "Field filter is not supported for image_id"})}
    \cup {[kind |-> "object", errors |-> e, data |-> [kind |-> "object", nodes |-> ns]] :
            e \in ErrorsKeys({"Throttled"}), ns \in SeqsUpTo(Nodes(1), 1)}
    \cup {[kind |-> "object", errors |-> [present |-> FALSE],
           data |-> [kind |-> "object", nodes |-> ns]] :
            ns \in SeqsUpTo(Nodes(maxFields), maxNodes)}
GetOutcomes(maxNodes, maxFields) ==
  Rejections \cup {Resolved(b) : b \in GetResponseData(maxNodes, maxFields)}

\* ------------------------------------------------------------ the server
Idle ==
  [pc |-> "idle", op |-> "none", input |-> Undefined, ts |-> 0, now |-> 0,
   sent |-> <<>>, outcome |-> NoOutcome, responses |-> <<>>]

Init ==
  /\ variant \in {1, 2}
  /\ clock = ClockStart
  /\ reqs = [r \in Slots |-> Idle]

\* The clock advances by a millisecond.
Tick ==
  /\ clock < ClockStart + MaxTicks
  /\ clock' = clock + 1
  /\ UNCHANGED <<variant, reqs>>

\* POST /apps/comments/save up to the await (lines 35-88).  The clock is read
\* twice (lines 42 and 43) and may advance by `drift` between the readings.
SaveRequest(r, body, drift) ==
  /\ reqs[r].pc # "awaiting"
  /\ clock + drift <= ClockStart + MaxTicks
  /\ IF ~SaveValid(body)
       THEN /\ drift = 0
            /\ reqs' = [reqs EXCEPT ![r] =
                 [pc |-> "done", op |-> "save", input |-> body, ts |-> 0, now |-> 0,
                  sent |-> <<>>, outcome |-> NoOutcome,
                  responses |-> <<Response(400, ErrorPayload("Missing image_id or comment in request body."))>>]]
       ELSE reqs' = [reqs EXCEPT ![r] =
                 [pc |-> "awaiting", op |-> "save", input |-> body, ts |-> clock, now |-> clock + drift,
                  sent |-> <<CreateCall(SaveVariables(body, clock, clock + drift))>>,
                  outcome |-> NoOutcome, responses |-> <<>>]]
  /\ clock' = clock + drift
  /\ UNCHANGED variant

\* POST /apps/comments/save from the await to the end (lines 88-142).
SaveResponse(r, outcome) ==
  /\ reqs[r].pc = "awaiting"
  /\ reqs[r].op = "save"
  /\ reqs' = [reqs EXCEPT ![r].pc = "done", ![r].outcome = outcome,
                          ![r].responses = SaveFinish(outcome)]
  /\ UNCHANGED <<variant, clock>>

\* GET /apps/comments/get up to the await (lines 149-180, 366-397).
GetRequest(r, query) ==
  /\ reqs[r].pc # "awaiting"
  /\ IF ~GetValid(query)
       THEN reqs' = [reqs EXCEPT ![r] =
                 [pc |-> "done", op |-> "get", input |-> query, ts |-> 0, now |-> 0,
                  sent |-> <<>>, outcome |-> NoOutcome,
                  responses |-> <<Response(400, ErrorPayload("Missing image_id query parameter."))>>]]
       ELSE reqs' = [reqs EXCEPT ![r] =
                 [pc |-> "awaiting", op |-> "get", input |-> query, ts |-> 0, now |-> 0,
                  sent |-> <<LookupCall(query.image_id)>>,
                  outcome |-> NoOutcome, responses |-> <<>>]]
  /\ UNCHANGED <<variant, clock>>

\* GET /apps/comments/get from the await to the end (lines 180-213, 397-449).
GetResponse(r, outcome) ==
  /\ reqs[r].pc = "awaiting"
  /\ reqs[r].op = "get"
  /\ reqs' = [reqs EXCEPT ![r].pc = "done", ![r].outcome = outcome,
                          ![r].responses = GetFinish(variant, outcome)]
  /\ UNCHANGED <<variant, clock>>

\* One client at a time: every request is answered before the next arrives.
Next ==
  \/ Tick
  \/ \E body \in SaveBodies, drift \in {0, 1} : SaveRequest(1, body, drift)
  \/ \E outcome \in SaveOutcomes : SaveResponse(1, outcome)
  \/ \E query \in GetQueries : GetRequest(1, query)
  \/ \E outcome \in GetOutcomes(1, 1) : GetResponse(1, outcome)

Spec == Init /\ [][Next]_vars

\* The lookup alone, over every answer of up to MaxNodes records of up to
\* MaxFields fields.
NextExtract ==
  \/ \E query \in GetQueries : GetRequest(1, query)
  \/ /\ reqs[1].pc = "awaiting"
     /\ \E outcome \in GetOutcomes(MaxNodes, MaxFields) : GetResponse(1, outcome)

SpecExtract == Init /\ [][NextExtract]_vars

\* The requests and remote answers of the many-client specifications; there the
\* two clock readings of a save fall in the same millisecond.
ClientSaveBodies == [image_id : {Num(0), Num(42), Str("42"), Str("7")}, comment : {Str("Nice photo!")}]
ClientGetQueries == [image_id : {Str("42")}]
ClientSaveOutcomes ==
  {o \in SaveOutcomes :
     \/ o = Rejected(NoResponse)
     \/ /\ o.tag = "resolved"
        /\ o.body.kind = "object"
        /\ ~o.body.errors.present
        /\ o.body.data.kind = "object"
        /\ o.body.data.metaobjectCreate.kind = "object"
        /\ o.body.data.metaobjectCreate.metaobject.present
        /\ o.body.data.metaobjectCreate.userErrors = [present |-> TRUE, items |-> <<>>]}
ClientGetOutcomes ==
  {o \in GetOutcomes(1, 1) :
     \/ o = Rejected(NoResponse)
     \/ /\ o.tag = "resolved"
        /\ o.body.kind = "object"
        /\ o.body.data.kind = "object"
        /\ ~o.body.errors.present
        /\ Len(o.body.data.nodes) = 1
        /\ o.body.data.nodes[1].fields.present
        /\ Len(o.body.data.nodes[1].fields.items) = 1
        /\ o.body.data.nodes[1].fields.items[1].value = Str("Nice photo!")}

\* No handler is suspended on its remote call.
NoneAwaiting == \A q \in Slots : reqs[q].pc # "awaiting"

\* Sequential submission: a request arrives only once every earlier one has
\* been answered; the slots keep the latest exchanges.
NextSeq ==
  \/ Tick
  \/ \E r \in Slots, body \in ClientSaveBodies : NoneAwaiting /\ SaveRequest(r, body, 0)
  \/ \E r \in Slots, outcome \in ClientSaveOutcomes : SaveResponse(r, outcome)
  \/ \E r \in Slots, query \in ClientGetQueries : NoneAwaiting /\ GetRequest(r, query)
  \/ \E r \in Slots, outcome \in ClientGetOutcomes : GetResponse(r, outcome)

SpecSeq == Init /\ [][NextSeq]_vars

\* Concurrent submission: up to MaxInFlight handlers are suspended at once and
\* resume in any order.
NextConc ==
  \/ Tick
  \/ \E r \in Slots, body \in ClientSaveBodies : SaveRequest(r, body, 0)
  \/ \E r \in Slots, outcome \in ClientSaveOutcomes : SaveResponse(r, outcome)
  \/ \E r \in Slots, query \in ClientGetQueries : GetRequest(r, query)
  \/ \E r \in Slots, outcome \in ClientGetOutcomes : GetResponse(r, outcome)

SpecConc == Init /\ [][NextConc]_vars

\* ------------------------------------------------------------ claims
Finished(r) == reqs[r].pc = "done"
Arrived(r) == reqs[r].pc # "idle"

\* A required input that is missing or empty.
MissingOrEmpty(v) == v = Undefined \/ v = Null \/ v = Str("")

\* The remote answered, transport-wise successfully, with this body.
ResolvedWith(r) == reqs[r].outcome.tag = "resolved"
BodyOf(r) == reqs[r].outcome.body

\* The answer's body carries a top-level errors array.
CarriesErrors(body) == body.kind = "object" /\ body.errors.present
ErrorsOf(body) == body.errors.items

\* The creation answer's body carries a non-empty userErrors list.
CarriesUserErrors(body) ==
  /\ body.kind = "object"
  /\ body.data.kind = "object"
  /\ body.data.metaobjectCreate.kind = "object"
  /\ body.data.metaobjectCreate.userErrors.present
  /\ body.data.metaobjectCreate.userErrors.items # <<>>
UserErrorsOf(body) == body.data.metaobjectCreate.userErrors.items

\* The creation answer's body carries the metaobject confirmation.
CarriesConfirmation(body) ==
  /\ body.kind = "object"
  /\ body.data.kind = "object"
  /\ body.data.metaobjectCreate.kind = "object"
  /\ body.data.metaobjectCreate.metaobject.present

\* The request was answered once, with a JSON error payload and a 4xx/5xx status.
AnsweredWithError(r) ==
  /\ Len(reqs[r].responses) = 1
  /\ reqs[r].responses[1].payload.kind = "error"
  /\ reqs[r].responses[1].status >= 400
  /\ reqs[r].responses[1].status <= 599

\* The request went down an error path: a missing input, an error status, a
\* transport failure, remote-reported errors, or an exception on the answer (a
\* record without a fields array).
OnErrorPath(r) ==
  \/ reqs[r].sent = <<>>
  \/ reqs[r].outcome.tag = "rejected"
  \/ /\ ResolvedWith(r)
     /\ \/ CarriesErrors(BodyOf(r))
        \/ reqs[r].op = "save" /\ CarriesUserErrors(BodyOf(r))
        \/ /\ reqs[r].op = "get"
           /\ BodyOf(r).kind = "object"
           /\ BodyOf(r).data.kind = "object"
           /\ \E i \in 1..Len(BodyOf(r).data.nodes) : ~BodyOf(r).data.nodes[i].fields.present

\* C1: every handler that has run to its end has sent exactly one response, and
\* on every error path that response is a JSON error payload with a 4xx/5xx
\* status.
C1_EveryErrorPathAnswered ==
  \A r \in Slots :
    Finished(r) =>
      /\ Len(reqs[r].responses) = 1
      /\ OnErrorPath(r) => AnsweredWithError(r)

\* C2: when the remote answer carries remote-reported errors (non-empty
\* userErrors on save, a top-level errors array on save or get), the response is
\* a 400 whose details are those remote errors unmodified, never a success.
C2_RemoteErrorsYield400 ==
  \A r \in Slots :
    (/\ Finished(r)
     /\ ResolvedWith(r)
     /\ \/ CarriesErrors(BodyOf(r))
        \/ reqs[r].op = "save" /\ CarriesUserErrors(BodyOf(r)))
    => /\ AnsweredWithError(r)
       /\ reqs[r].responses[1].status = 400
       /\ reqs[r].responses[1].payload.hasDetails
       /\ \/ /\ CarriesErrors(BodyOf(r))
             /\ reqs[r].responses[1].payload.details = [array |-> ErrorsOf(BodyOf(r))]
          \/ /\ reqs[r].op = "save"
             /\ CarriesUserErrors(BodyOf(r))
             /\ reqs[r].responses[1].payload.details = [array |-> UserErrorsOf(BodyOf(r))]

\* The required inputs of the request in slot r, as the claim lists them.
RequiredInputs(r) ==
  IF reqs[r].op = "save" THEN {reqs[r].input.image_id, reqs[r].input.comment}
  ELSE {reqs[r].input.image_id}

\* C3: a request with a missing or empty required input (save: image_id or
\* comment; get: image_id) issues no remote call and is answered with a 400.
C3_MissingInputNoRemoteCall ==
  \A r \in Slots :
    (Arrived(r) /\ \E v \in RequiredInputs(r) : MissingOrEmpty(v))
    => /\ reqs[r].sent = <<>>
       /\ reqs[r].outcome = NoOutcome
       /\ Finished(r)
       /\ AnsweredWithError(r)
       /\ reqs[r].responses[1].status = 400

\* C3's case: a save whose image_id is given and whose comment is empty has been
\* answered.
C3_Witness ==
  /\ Finished(1)
  /\ reqs[1].op = "save"
  /\ reqs[1].input = [image_id |-> Str("42"), comment |-> Str("")]
  /\ reqs[1].responses # <<>>

\* An input that is present and non-empty: a non-empty string, or a number
\* (numeric 0 included).
PresentNonEmpty(v) == (v.t = "string" /\ v.s # "") \/ v.t = "number"

\* C4: a submission whose image_id (string or number, 0 included) and comment
\* are present and non-empty sends exactly one creation request, whatever the
\* remote outcome, with the fields image_id (stringified), comment_text
\* (verbatim) and timestamp, in that order.
C4_ExactlyOneCreation ==
  \A r \in Slots :
    (/\ Arrived(r)
     /\ reqs[r].op = "save"
     /\ PresentNonEmpty(reqs[r].input.image_id)
     /\ PresentNonEmpty(reqs[r].input.comment))
    => /\ Len(reqs[r].sent) = 1
       /\ reqs[r].sent[1].op = "metaobjectCreate"
       /\ Len(reqs[r].sent[1].variables.fields) = 3
       /\ reqs[r].sent[1].variables.fields[1] =
            [key |-> "image_id", value |-> Str(ToString(reqs[r].input.image_id))]
       /\ reqs[r].sent[1].variables.fields[2] =
            [key |-> "comment_text", value |-> reqs[r].input.comment]
       /\ reqs[r].sent[1].variables.fields[3].key = "timestamp"

\* C6: a transport failure (the request was sent, no answer came) yields a 500
\* with a generic message and no details.
C6_TransportFailure500 ==
  \A r \in Slots :
    (Finished(r) /\ reqs[r].outcome = Rejected(NoResponse))
    => /\ AnsweredWithError(r)
       /\ reqs[r].responses[1].status = 500
       /\ ~reqs[r].responses[1].payload.hasDetails

\* C7: when the remote answers with error status S and payload P, the response
\* has status S and carries P unchanged.
C7_ErrorStatusRelayed ==
  \A r \in Slots :
    (Finished(r) /\ reqs[r].outcome.tag = "rejected" /\ reqs[r].outcome.err.tag = "response")
    => /\ AnsweredWithError(r)
       /\ reqs[r].responses[1].status = reqs[r].outcome.err.status
       /\ reqs[r].responses[1].payload.hasDetails
       /\ reqs[r].responses[1].payload.details = reqs[r].outcome.err.data

\* The save request in slot r was answered with the success envelope.
AnsweredWithSuccess(r) ==
  \E i \in 1..Len(reqs[r].responses) : reqs[r].responses[i].payload.kind = "success"

\* C8: a save is answered {success: true, data: <confirmation>} only when the
\* remote answer has no userErrors, no top-level errors and a metaobject
\* confirmation; an answer without reported errors and without the confirmation
\* (or without a body) yields a 500.
C8_SuccessOnlyWithConfirmation ==
  \A r \in Slots :
    (Finished(r) /\ reqs[r].op = "save") =>
      /\ AnsweredWithSuccess(r) =>
           /\ ResolvedWith(r)
           /\ ~CarriesUserErrors(BodyOf(r))
           /\ ~CarriesErrors(BodyOf(r))
           /\ CarriesConfirmation(BodyOf(r))
           /\ reqs[r].responses =
                <<Response(200, [kind |-> "success", success |-> TRUE,
                                 data |-> BodyOf(r).data.metaobjectCreate])>>
      /\ (/\ ResolvedWith(r)
          /\ ~CarriesUserErrors(BodyOf(r))
          /\ ~CarriesErrors(BodyOf(r))
          /\ ~CarriesConfirmation(BodyOf(r)))
         => /\ AnsweredWithError(r)
            /\ reqs[r].responses[1].status = 500

\* C8's case: a creation answer without errors and without the confirmation was
\* answered.
C8_Witness ==
  /\ Finished(1)
  /\ reqs[1].op = "save"
  /\ ResolvedWith(1)
  /\ BodyOf(1).kind = "object"
  /\ ~CarriesErrors(BodyOf(1))
  /\ BodyOf(1).data.kind = "object"
  /\ BodyOf(1).data.metaobjectCreate.kind = "object"
  /\ ~BodyOf(1).data.metaobjectCreate.metaobject.present
  /\ reqs[1].responses # <<>>

\* The records of a lookup answer's body.
RecordsIn(body) ==
  IF body.kind = "object" /\ body.data.kind = "object" THEN body.data.nodes ELSE <<>>

\* The record contains a field with key comment_text.
ContainsCommentText(node) ==
  node.fields.present /\ \E i \in 1..Len(node.fields.items) : node.fields.items[i].key = "comment_text"

\* The values of the record's comment_text fields.
CommentTextValues(node) ==
  {node.fields.items[i].value : i \in {j \in 1..Len(node.fields.items) : node.fields.items[j].key = "comment_text"}}

\* The value of the record's first comment_text field.
FirstCommentText(node) ==
  node.fields.items[CHOOSE i \in 1..Len(node.fields.items) :
                      /\ node.fields.items[i].key = "comment_text"
                      /\ \A j \in 1..(i - 1) : node.fields.items[j].key # "comment_text"].value

\* The retrieval in slot r succeeded: it was answered with { comments: [...] }.
Retrieved(r) ==
  /\ Finished(r)
  /\ reqs[r].op = "get"
  /\ ResolvedWith(r)
  /\ Len(reqs[r].responses) = 1
  /\ reqs[r].responses[1].payload.kind = "comments"
CommentsOf(r) == reqs[r].responses[1].payload.comments

\* C5 as stated: a successful retrieval over N records of which M contain a
\* comment_text field returns exactly M entries, those records' comment_text
\* values in the store's order, none of them null.
C5_OneEntryPerRecordWithField ==
  \A r \in Slots :
    Retrieved(r) =>
      LET withField == SelectSeq(RecordsIn(BodyOf(r)), ContainsCommentText)
      IN  /\ Len(CommentsOf(r)) = Len(withField)
          /\ \A i \in 1..Len(CommentsOf(r)) :
               /\ i <= Len(withField) => CommentsOf(r)[i] \in CommentTextValues(withField[i])
               /\ CommentsOf(r)[i] # Null

\* The record's first comment_text field carries a non-null value.
CarriesComment(node) == ContainsCommentText(node) /\ FirstCommentText(node) # Null

\* C5 amended: a successful retrieval returns one entry per record whose first
\* comment_text field has a non-null value, namely that value, in the store's
\* order, none of them null; a record whose first comment_text value is null is
\* left out like a record without the field.
C5_OneEntryPerNonNullComment ==
  \A r \in Slots :
    Retrieved(r) =>
      LET kept == SelectSeq(RecordsIn(BodyOf(r)), CarriesComment)
      IN  /\ Len(CommentsOf(r)) = Len(kept)
          /\ \A i \in 1..Len(kept) : CommentsOf(r)[i] = FirstCommentText(kept[i])
          /\ \A i \in 1..Len(CommentsOf(r)) : CommentsOf(r)[i] # Null

\* C5's case: a retrieval over a record with a null comment_text value and a
\* record with two comment_text fields was answered with the one comment.
C5_Witness ==
  /\ Retrieved(1)
  /\ Len(RecordsIn(BodyOf(1))) = 2
  /\ ContainsCommentText(RecordsIn(BodyOf(1))[1])
  /\ FirstCommentText(RecordsIn(BodyOf(1))[1]) = Null
  /\ ContainsCommentText(RecordsIn(BodyOf(1))[2])
  /\ Cardinality(CommentTextValues(RecordsIn(BodyOf(1))[2])) = 2
  /\ Len(CommentsOf(1)) = 1

\* The submission in slot r sent a creation request.
SentCreation(r) == reqs[r].op = "save" /\ reqs[r].sent # <<>>
HandleOf(r) == reqs[r].sent[1].variables.handle
ImageIdSentBy(r) == reqs[r].sent[1].variables.fields[1].value

\* C9 as stated: under sequential submission no two creation requests carry the
\* same handle, equal clock readings for the same image_id included.
C9_HandlesUnique ==
  \A r1, r2 \in Slots :
    (r1 # r2 /\ SentCreation(r1) /\ SentCreation(r2)) => HandleOf(r1) # HandleOf(r2)

\* C9 amended: under sequential submission two creation requests carry the same
\* handle only if their stringified image_ids are equal and their clock
\* readings are the same millisecond; submissions that differ in either carry
\* different handles.
C9_HandlesUniquePerImageAndMillisecond ==
  \A r1, r2 \in Slots :
    (r1 # r2 /\ SentCreation(r1) /\ SentCreation(r2)) =>
      (HandleOf(r1) = HandleOf(r2)
         <=> (ImageIdSentBy(r1) = ImageIdSentBy(r2) /\ reqs[r1].now = reqs[r2].now))

\* C9's case: two submissions for the same image_id, one answered before the
\* other arrived, a millisecond apart.
C9_Witness ==
  /\ SentCreation(1)
  /\ SentCreation(2)
  /\ Finished(1)
  /\ ImageIdSentBy(1) = ImageIdSentBy(2)
  /\ reqs[1].now < reqs[2].now
  /\ HandleOf(1) # HandleOf(2)

\* Two requests with the same operation, input and clock readings.
SameRequest(r1, r2) ==
  /\ Arrived(r1)
  /\ Arrived(r2)
  /\ reqs[r1].op = reqs[r2].op
  /\ reqs[r1].input = reqs[r2].input
  /\ reqs[r1].ts = reqs[r2].ts
  /\ reqs[r1].now = reqs[r2].now

\* A step touches one request only.
OneRequestPerStep ==
  \A r1, r2 \in Slots : (reqs[r1]' # reqs[r1] /\ r2 # r1) => reqs[r2]' = reqs[r2]

\* Until it is answered, a request keeps its input, its clock readings and the
\* remote call it sent, and it is given a remote answer only as it finishes.
SuspendedUntouched ==
  \A r \in Slots :
    reqs[r].pc = "awaiting" =>
      /\ reqs[r]'.op = reqs[r].op
      /\ reqs[r]'.input = reqs[r].input
      /\ reqs[r]'.ts = reqs[r].ts
      /\ reqs[r]'.now = reqs[r].now
      /\ reqs[r]'.sent = reqs[r].sent
      /\ reqs[r]'.pc = "awaiting" => reqs[r]' = reqs[r]

\* C10: under any interleaving, the remote request a handler sends is determined
\* by its own input and clock readings, and its response by those and the
\* remote answer to its own call: two requests equal in these send the same
\* call and the same response; every step touches one request only.
C10_RequestsIndependent ==
  /\ [](\A r1, r2 \in Slots :
          SameRequest(r1, r2) =>
            /\ reqs[r1].sent = reqs[r2].sent
            /\ (Finished(r1) /\ Finished(r2) /\ reqs[r1].outcome = reqs[r2].outcome)
                 => reqs[r1].responses = reqs[r2].responses)
  /\ [][OneRequestPerStep /\ SuspendedUntouched]_vars

\* C10's case: a save that arrived while an earlier one was still suspended has
\* been answered, the earlier one being suspended yet.
C10_Witness ==
  /\ reqs[1].pc = "awaiting"
  /\ reqs[1].op = "save"
  /\ Finished(2)
  /\ reqs[2].op = "save"
  /\ reqs[2].outcome # NoOutcome
  /\ reqs[1].now < reqs[2].now
  /\ reqs[1].input = reqs[2].input
====
